---- MODULE Spec2Model ----
(***************************************************************************)
(* Model of the Oxide cloud controller manager's load-balancer provider:   *)
(* the floating-IP lifecycle (GetLoadBalancer, EnsureLoadBalancer,         *)
(* UpdateLoadBalancer, EnsureLoadBalancerDeleted), the control-plane node  *)
(* selector and the provider-ID codec they use.                            *)
(*                                                                         *)
(* Go strings are sequences of one-character strings, so that prefix       *)
(* tests, trimming, formatting and string comparison are computed and      *)
(* not assumed.  Every backend request of a handler is one step of the     *)
(* handler's process; the backend (the Oxide API) is the environment.      *)
(***************************************************************************)
EXTENDS Integers, Sequences, FiniteSets, TLC

VARIABLES
    service,     \* the *v1.Service the orchestrator reconciles
    fips,        \* backend: floating IPs of the project, by name
    op,          \* entry point in progress or last returned
    pc,          \* position of the current call
    nodes,       \* the nodes argument of the current call (keys of NodePool)
    instanceID,  \* local variable instanceID
    floatingIP,  \* local variable floatingIP
    log,         \* backend requests issued by the current call, in order
    ret,         \* return value of the current call
    prev,        \* what the previous call established, while nobody disturbs it
    repeat,      \* the current call repeats the previous one, undisturbed
    touched,     \* someone else mutated the backend since the current call began
    faulty,      \* backend requests that currently fail
    envLeft,     \* fault injections and foreign mutations still to come
    twin,        \* the caller's plan, and the outcome of the first of two runs
    instances,   \* backend: the instances of the project, by id
    nodeCall,    \* a per-node call: its node argument, its locals instance and nics
    metadata,    \* the *cloudprovider.InstanceMetadata a call returned
    pure,        \* a pure function under evaluation: its input and its result
    other        \* the call of another Service that is in progress, while it waits

vars == <<service, fips, op, pc, nodes, instanceID, floatingIP, log, ret,
          prev, repeat, touched, faulty, envLeft, twin,
          instances, nodeCall, metadata, pure, other>>

\* ------------------------------------------------------------------ bounds

MaxNodes == 2
MaxEnv == 1
MaxSelect == 2
MaxApply == 2
MaxNics == 2
MaxExternalIps == 2
MaxPairCalls == 3

\* ----------------------------------------------------------------- strings

Rep(c, n) == [i \in 1..n |-> c]

EmptyString == << >>

HasPrefix(s, p) == Len(s) >= Len(p) /\ SubSeq(s, 1, Len(p)) = p

TrimPrefix(s, p) == IF HasPrefix(s, p) THEN SubSeq(s, Len(p) + 1, Len(s)) ELSE s

OxidePrefix == <<"o", "x", "i", "d", "e", ":", "/", "/">>

AwsPrefix == <<"a", "w", "s", ":", "/", "/">>

HexDigits == {"0", "1", "2", "3", "4", "5", "6", "7", "8", "9",
              "a", "b", "c", "d", "e", "f", "A", "B", "C", "D", "E", "F"}

\* a UUID in the hyphenated 8-4-4-4-12 form, all of whose digits are c
UUIDOf(c) == Rep(c, 8) \o <<"-">> \o Rep(c, 4) \o <<"-">> \o Rep(c, 4)
             \o <<"-">> \o Rep(c, 4) \o <<"-">> \o Rep(c, 12)

HyphenAt == {9, 14, 19, 24}

\* xxxxxxxx-xxxx-xxxx-xxxx-xxxxxxxxxxxx, hex digits of either case
Hyphenated(s) ==
    /\ Len(s) = 36
    /\ \A i \in 1..36 : IF i \in HyphenAt THEN s[i] = "-" ELSE s[i] \in HexDigits

UrnPrefix == <<"u", "r", "n", ":", "u", "u", "i", "d", ":">>

LowerCase == [A |-> "a", B |-> "b", C |-> "c", D |-> "d", E |-> "e", F |-> "f",
              I |-> "i", N |-> "n", O |-> "o", R |-> "r", U |-> "u", X |-> "x"]

ToLower(c) == IF c \in DOMAIN LowerCase THEN LowerCase[c] ELSE c

\* strings.EqualFold
EqualFold(s, t) == Len(s) = Len(t) /\ \A i \in 1..Len(s) : ToLower(s[i]) = ToLower(t[i])

\* uuid.Parse succeeds.  By length: the hyphenated form; the same behind
\* "urn:uuid:" (in any letter case); the same between two characters that are
\* dropped unexamined (the braced form); 32 hex digits without hyphens
UUIDParses(s) ==
    CASE Len(s) = 36 -> Hyphenated(s)
      [] Len(s) = 45 -> EqualFold(SubSeq(s, 1, 9), UrnPrefix) /\ Hyphenated(SubSeq(s, 10, 45))
      [] Len(s) = 38 -> Hyphenated(SubSeq(s, 2, 37))
      [] Len(s) = 32 -> \A i \in 1..32 : s[i] \in HexDigits
      [] OTHER -> FALSE

\* -------------------------------------------------------------------- codec

NoError == "nil"

\* bug: the scheme prefix is validated but not removed
InstanceIDWithPrefix(providerID) ==
    IF providerID = EmptyString
    THEN [id |-> EmptyString, err |-> "provider id is empty"]
    ELSE IF ~HasPrefix(providerID, OxidePrefix)
    THEN [id |-> EmptyString, err |-> "provider id does not have 'oxide://' prefix"]
    ELSE IF ~UUIDParses(TrimPrefix(providerID, OxidePrefix))
    THEN [id |-> EmptyString, err |-> "provider id contains invalid uuid"]
    ELSE [id |-> providerID, err |-> NoError]

\* bug: the scheme is tested before the empty string is
InstanceIDPrefixFirst(providerID) ==
    IF ~HasPrefix(providerID, OxidePrefix)
    THEN [id |-> EmptyString, err |-> "provider id does not have 'oxide://' prefix"]
    ELSE IF providerID = EmptyString
    THEN [id |-> EmptyString, err |-> "provider id is empty"]
    ELSE IF ~UUIDParses(TrimPrefix(providerID, OxidePrefix))
    THEN [id |-> EmptyString, err |-> "provider id contains invalid uuid"]
    ELSE [id |-> TrimPrefix(providerID, OxidePrefix), err |-> NoError]

\* InstanceIDFromProviderID: (instance id, error)
InstanceIDFromProviderID(providerID) ==
    IF providerID = EmptyString
    THEN [id |-> EmptyString, err |-> "provider id is empty"]
    ELSE IF ~HasPrefix(providerID, OxidePrefix)
    THEN [id |-> EmptyString, err |-> "provider id does not have 'oxide://' prefix"]
    ELSE IF ~UUIDParses(TrimPrefix(providerID, OxidePrefix))
    THEN [id |-> EmptyString, err |-> "provider id contains invalid uuid"]
    ELSE [id |-> TrimPrefix(providerID, OxidePrefix), err |-> NoError]

\* bug: the instance id is normalised to lower case
NewProviderIDFolded(id) == OxidePrefix \o [i \in 1..Len(id) |-> ToLower(id[i])]

\* bug: an empty instance id is not formatted
NewProviderIDNonEmpty(id) == IF id = EmptyString THEN EmptyString ELSE OxidePrefix \o id

\* NewProviderID: fmt.Sprintf("oxide://%s", instanceID)
NewProviderID(id) == OxidePrefix \o id

\* -------------------------------------------------------------------- nodes

ControlPlaneLabel == "node-role.kubernetes.io/control-plane"

MasterLabel == "node-role.kubernetes.io/master"

\* a node's Labels map: nil, or the set of its keys
NilLabels == [nil |-> TRUE, keys |-> {}]

Labels(ks) == [nil |-> FALSE, keys |-> ks]

InstanceOne == UUIDOf("1")

InstanceLower == UUIDOf("a")

InstanceUpper == UUIDOf("A")

\* the *v1.Node objects a call may be given
NodePool ==
    [ n1      |-> [Labels |-> Labels({ControlPlaneLabel}), ProviderID |-> NewProviderID(InstanceOne)],
      master  |-> [Labels |-> Labels({MasterLabel}),       ProviderID |-> NewProviderID(InstanceLower)],
      upper   |-> [Labels |-> Labels({ControlPlaneLabel}), ProviderID |-> NewProviderID(InstanceUpper)],
      worker  |-> [Labels |-> Labels({"kubernetes.io/os"}), ProviderID |-> NewProviderID(InstanceOne)],
      bare    |-> [Labels |-> NilLabels,                    ProviderID |-> NewProviderID(InstanceLower)],
      foreign |-> [Labels |-> Labels({MasterLabel}),       ProviderID |-> AwsPrefix \o InstanceOne],
      unset   |-> [Labels |-> Labels({ControlPlaneLabel}), ProviderID |-> EmptyString] ]

NodeKeys == DOMAIN NodePool

\* the nodes the orchestrator passes to a reconcile call
ReconcileKeys == {"n1", "master", "worker", "unset", "foreign"}

NodeLists == UNION {[1..n -> ReconcileKeys] : n \in 0..MaxNodes}

NoNode == "none"

\* bug: only the current label is looked for, the legacy one is not
IsControlPlaneCurrent(k) ==
    /\ ~NodePool[k].Labels.nil
    /\ ControlPlaneLabel \in NodePool[k].Labels.keys

IsControlPlane(k) ==
    /\ ~NodePool[k].Labels.nil
    /\ \/ ControlPlaneLabel \in NodePool[k].Labels.keys
       \/ MasterLabel \in NodePool[k].Labels.keys

\* findControlPlaneNode: the first node of the list that carries a role label
RECURSIVE findControlPlaneNode(_)
findControlPlaneNode(ns) ==
    IF ns = << >> THEN NoNode
    ELSE IF IsControlPlane(Head(ns)) THEN Head(ns)
    ELSE findControlPlaneNode(Tail(ns))

\* ------------------------------------------------------------------ service

\* the Service ns/web
TheService == [Namespace |-> <<"n", "s">>, Name |-> <<"w", "e", "b">>]

Services == {TheService, [Namespace |-> <<"k">>, Name |-> <<"d", "b">>]}

\* GetLoadBalancerName: fmt.Sprintf("lb-%s-%s", service.Namespace, service.Name)
GetLoadBalancerName(svc) == <<"l", "b", "-">> \o svc.Namespace \o <<"-">> \o svc.Name

FipNames == {GetLoadBalancerName(svc) : svc \in Services}

\* ------------------------------------------------------------------ backend

\* *oxide.FloatingIp; nil is the nil pointer / the absent resource
NilFip == [nil |-> TRUE, Ip |-> "", InstanceId |-> EmptyString]

Fip(ip, inst) == [nil |-> FALSE, Ip |-> ip, InstanceId |-> inst]

\* addresses of the pool named "default"
DefaultPool == {"192.0.2.1", "192.0.2.2"}

InstanceIds == {InstanceOne, InstanceLower, InstanceUpper}

Requests == {"view", "create", "detach", "attach", "delete"}

\* bug: a not-found answer is not recognised
NeverNotFound(err) == FALSE

\* strings.Contains(err.Error(), "NotFound")
IsNotFound(err) == err = "NotFound"

\* FloatingIpView{Project, FloatingIp: name}
ViewOutcomes(name) ==
    IF "view" \in faulty THEN {[err |-> "Backend", fip |-> NilFip]}
    ELSE IF fips[name].nil THEN {[err |-> "NotFound", fip |-> NilFip]}
    ELSE {[err |-> NoError, fip |-> fips[name]]}

\* FloatingIpCreate{Project, Body{Name: name, Pool: "default"}}
CreateOutcomes(name) ==
    IF "create" \in faulty THEN {[err |-> "Backend", fip |-> NilFip, after |-> fips[name]]}
    ELSE IF ~fips[name].nil
    THEN {[err |-> "ObjectAlreadyExists", fip |-> NilFip, after |-> fips[name]]}
    ELSE {[err |-> NoError, fip |-> Fip(ip, EmptyString), after |-> Fip(ip, EmptyString)] :
            ip \in DefaultPool}

\* FloatingIpDetach{Project, FloatingIp: name}
DetachOutcomes(name) ==
    IF "detach" \in faulty THEN {[err |-> "Backend", fip |-> NilFip, after |-> fips[name]]}
    ELSE IF fips[name].nil THEN {[err |-> "NotFound", fip |-> NilFip, after |-> fips[name]]}
    ELSE IF fips[name].InstanceId = EmptyString
    THEN {[err |-> "InvalidRequest", fip |-> NilFip, after |-> fips[name]],
          [err |-> NoError, fip |-> fips[name], after |-> fips[name]]}
    ELSE {[err |-> NoError, fip |-> Fip(fips[name].Ip, EmptyString),
           after |-> Fip(fips[name].Ip, EmptyString)]}

\* FloatingIpAttach{Project, FloatingIp: name, Body{Kind: instance, Parent}}
AttachOutcomes(name, parent) ==
    IF "attach" \in faulty THEN {[err |-> "Backend", fip |-> NilFip, after |-> fips[name]]}
    ELSE IF fips[name].nil THEN {[err |-> "NotFound", fip |-> NilFip, after |-> fips[name]]}
    ELSE IF fips[name].InstanceId # EmptyString
    THEN {[err |-> "InvalidRequest", fip |-> NilFip, after |-> fips[name]]}
    ELSE {[err |-> NoError, fip |-> Fip(fips[name].Ip, parent),
           after |-> Fip(fips[name].Ip, parent)]}

\* FloatingIpDelete{Project, FloatingIp: name}
DeleteOutcomes(name) ==
    IF "delete" \in faulty THEN {[err |-> "Backend", fip |-> NilFip, after |-> fips[name]]}
    ELSE IF fips[name].nil THEN {[err |-> "NotFound", fip |-> NilFip, after |-> fips[name]]}
    ELSE IF fips[name].InstanceId # EmptyString
    THEN {[err |-> "InvalidRequest", fip |-> NilFip, after |-> fips[name]],
          [err |-> NoError, fip |-> NilFip, after |-> NilFip]}
    ELSE {[err |-> NoError, fip |-> NilFip, after |-> NilFip]}

\* one issued request, as the call's log records it
Issued(req, parent, pool, o) ==
    [req |-> req, parent |-> parent, pool |-> pool, err |-> o.err, got |-> o.fip]

Name == GetLoadBalancerName(service)

\* ------------------------------------------------------------ return values

\* (status, exists, err): status is the list of ingress IPs, << >> for a nil status
Pending == [err |-> "pending", ingress |-> << >>, exists |-> FALSE]

Ok(ingress, exists) == [err |-> NoError, ingress |-> ingress, exists |-> exists]

Failed(msg) == [err |-> msg, ingress |-> << >>, exists |-> FALSE]

Returned == pc = "done"

Succeeded == Returned /\ ret.err = NoError

\* ----------------------------------------------------------------- a call

\* the caller's plan: "off" for the orchestrator at large, "retry" for a
\* caller that repeats ensure with the nodes `want`, "ensure"/"update" for an
\* ensure and an update run from the same backend state `snap`
NoTwin == [phase |-> "off", want |-> << >>, tries |-> 0, snap |-> NilFip,
           log |-> << >>, ret |-> Pending, final |-> NilFip, id |-> EmptyString]

CanBegin == pc = "idle" /\ twin.phase = "off"

NoPrev == [kind |-> "other", nodes |-> << >>]

\* no call of another Service is in progress.  Otherwise: that call's Service
\* and locals while it waits, the floating IP of its Service as it last saw
\* it, and the number of calls begun so far
NoOther == [on |-> FALSE, service |-> TheService, op |-> "none", pc |-> "idle",
            nodes |-> << >>, instanceID |-> EmptyString, floatingIP |-> NilFip,
            log |-> << >>, ret |-> Pending, prev |-> NoPrev, repeat |-> "other",
            touched |-> FALSE, seen |-> NilFip, calls |-> 0]

\* bookkeeping of a call's entry: what the previous call was, a fresh log
Enter(o, ns) ==
    /\ op' = o
    /\ nodes' = ns
    /\ log' = << >>
    /\ floatingIP' = NilFip
    /\ repeat' = IF prev.kind = "ensured" /\ prev.nodes # ns THEN "other" ELSE prev.kind
    /\ prev' = NoPrev
    /\ touched' = FALSE

Return(r) == pc' = "done" /\ ret' = r

Goto(label) == pc' = label /\ ret' = Pending

\* what every step of a call leaves alone
Frame == UNCHANGED <<other, instances, nodeCall, metadata, pure, service, op, nodes, prev, repeat, touched, faulty, envLeft, twin>>

\* the backend record of the service's floating IP becomes f
Store(f) == fips' = [fips EXCEPT ![Name] = f]

\* ------------------------------------------------------- GetLoadBalancer

GetBegin ==
    /\ CanBegin
    /\ Enter("get", << >>)
    /\ Goto("view")
    /\ UNCHANGED <<other, instances, nodeCall, metadata, pure, service, fips, instanceID, faulty, envLeft, twin>>

\* bug: a not-found answer of the lookup is returned as a failure
GetViewStrict ==
    /\ op = "get" /\ pc = "view"
    /\ \E o \in ViewOutcomes(Name) :
         /\ log' = Append(log, Issued("view", EmptyString, "", o))
         /\ floatingIP' = o.fip
         /\ IF o.err # NoError
            THEN Return(Failed("failed viewing floating ip"))
            ELSE Return(Ok(<<o.fip.Ip>>, TRUE))
    /\ UNCHANGED <<fips, instanceID>>
    /\ Frame

\* lines 89-108
GetView ==
    /\ op = "get" /\ pc = "view"
    /\ \E o \in ViewOutcomes(Name) :
         /\ log' = Append(log, Issued("view", EmptyString, "", o))
         /\ floatingIP' = o.fip
         /\ IF o.err # NoError
            THEN IF IsNotFound(o.err)
                 THEN Return(Ok(<< >>, FALSE))
                 ELSE Return(Failed("failed viewing floating ip"))
            ELSE Return(Ok(<<o.fip.Ip>>, TRUE))
    /\ UNCHANGED <<fips, instanceID>>
    /\ Frame

\* ---------------------------------------------------- EnsureLoadBalancer

\* bug: a not-found answer of the lookup ends the call
EnsureLookupStrict(err) == err # NoError

\* line 134: the lookup failed, and not with not-found
EnsureLookupFails(err) == err # NoError /\ ~IsNotFound(err)

\* bug: the attachment is redone on every call
EnsureAlwaysAttach(f, id) == TRUE

\* line 158: the floating IP is not attached to the desired instance
EnsureMustAttach(f, id) == f.InstanceId = EmptyString \/ f.InstanceId # id

\* bug: the floating IP is never detached from its previous instance
EnsureNeverDetach(f) == FALSE

\* line 160: it is attached to some other instance
EnsureMustDetach(f) == f.InstanceId # EmptyString

\* bug: an attached floating IP is attached again without a detach
EnsureAttachmentDirect(f, id) ==
    IF EnsureMustAttach(f, id)
    THEN Goto("attach")
    ELSE Return(Ok(<<f.Ip>>, TRUE))

\* lines 157-196 up to the first request: where the call goes with floatingIP = f
EnsureAttachment(f, id) ==
    IF EnsureMustAttach(f, id)
    THEN IF EnsureMustDetach(f) THEN Goto("detach") ELSE Goto("attach")
    ELSE Return(Ok(<<f.Ip>>, TRUE))

\* bug: without a control-plane node the first node of the list is taken
EnsureEntryAnyNode(ns) ==
    /\ Enter("ensure", ns)
    /\ LET found == findControlPlaneNode(ns)
           controlPlaneNode == IF found = NoNode /\ ns # << >> THEN ns[1] ELSE found IN
       IF controlPlaneNode = NoNode
       THEN /\ Return(Failed("failed finding control plane node"))
            /\ instanceID' = EmptyString
       ELSE LET d == InstanceIDFromProviderID(NodePool[controlPlaneNode].ProviderID) IN
            IF d.err # NoError
            THEN /\ Return(Failed("failed retrieving instance id from provider id"))
                 /\ instanceID' = EmptyString
            ELSE /\ Goto("view")
                 /\ instanceID' = d.id

\* lines 114-127: select the node and decode its provider ID
EnsureEntry(ns) ==
    /\ Enter("ensure", ns)
    /\ LET controlPlaneNode == findControlPlaneNode(ns) IN
       IF controlPlaneNode = NoNode
       THEN /\ Return(Failed("failed finding control plane node"))
            /\ instanceID' = EmptyString
       ELSE LET d == InstanceIDFromProviderID(NodePool[controlPlaneNode].ProviderID) IN
            IF d.err # NoError
            THEN /\ Return(Failed("failed retrieving instance id from provider id"))
                 /\ instanceID' = EmptyString
            ELSE /\ Goto("view")
                 /\ instanceID' = d.id

EnsureBegin ==
    /\ CanBegin
    /\ \E ns \in NodeLists : EnsureEntry(ns)
    /\ UNCHANGED <<other, instances, nodeCall, metadata, pure, service, fips, faulty, envLeft, twin>>

\* lines 129-155, the lookup
EnsureView ==
    /\ op = "ensure" /\ pc = "view"
    /\ \E o \in ViewOutcomes(Name) :
         /\ log' = Append(log, Issued("view", EmptyString, "", o))
         /\ floatingIP' = o.fip
         /\ IF EnsureLookupFails(o.err)
            THEN Return(Failed("failed viewing floating ip"))
            ELSE IF o.fip.nil
                 THEN Goto("create")
                 ELSE EnsureAttachment(o.fip, instanceID)
    /\ UNCHANGED <<fips, instanceID>>
    /\ Frame

\* lines 139-155, the create
EnsureCreate ==
    /\ op = "ensure" /\ pc = "create"
    /\ \E o \in CreateOutcomes(Name) :
         /\ log' = Append(log, Issued("create", EmptyString, "default", o))
         /\ floatingIP' = o.fip
         /\ Store(o.after)
         /\ IF o.err # NoError
            THEN Return(Failed("failed creating floating ip"))
            ELSE EnsureAttachment(o.fip, instanceID)
    /\ UNCHANGED instanceID
    /\ Frame

\* lines 160-169
EnsureDetach ==
    /\ op = "ensure" /\ pc = "detach"
    /\ \E o \in DetachOutcomes(Name) :
         /\ log' = Append(log, Issued("detach", EmptyString, "", o))
         /\ Store(o.after)
         /\ IF o.err # NoError
            THEN Return(Failed("failed detaching floating ip"))
            ELSE Goto("attach")
    /\ UNCHANGED <<instanceID, floatingIP>>
    /\ Frame

\* bug: a failed attach is issued once more before the call gives up
EnsureAttachRetry ==
    /\ op = "ensure" /\ pc = "attach"
    /\ \E o \in AttachOutcomes(Name, instanceID) :
         /\ log' = Append(log, Issued("attach", instanceID, "", o))
         /\ Store(o.after)
         /\ floatingIP' = o.fip
         /\ IF o.err # NoError
            THEN IF \E i \in DOMAIN log : log[i].req = "attach"
                 THEN Return(Failed("failed attaching floating ip"))
                 ELSE Goto("attach")
            ELSE Return(Ok(<<o.fip.Ip>>, TRUE))
    /\ UNCHANGED instanceID
    /\ Frame

\* bug: after a failed attach the floating IP is deleted again
EnsureAttachCleanup ==
    /\ op = "ensure" /\ pc = "attach"
    /\ \E o \in AttachOutcomes(Name, instanceID) :
         /\ floatingIP' = o.fip
         /\ IF o.err # NoError
            THEN /\ log' = Append(Append(log, Issued("attach", instanceID, "", o)),
                                  Issued("delete", EmptyString, "",
                                         [err |-> NoError, fip |-> NilFip]))
                 /\ Store(NilFip)
                 /\ Return(Failed("failed attaching floating ip"))
            ELSE /\ log' = Append(log, Issued("attach", instanceID, "", o))
                 /\ Store(o.after)
                 /\ Return(Ok(<<o.fip.Ip>>, TRUE))
    /\ UNCHANGED instanceID
    /\ Frame

\* lines 171-196
EnsureAttach ==
    /\ op = "ensure" /\ pc = "attach"
    /\ \E o \in AttachOutcomes(Name, instanceID) :
         /\ log' = Append(log, Issued("attach", instanceID, "", o))
         /\ Store(o.after)
         /\ floatingIP' = o.fip
         /\ IF o.err # NoError
            THEN Return(Failed("failed attaching floating ip"))
            ELSE Return(Ok(<<o.fip.Ip>>, TRUE))
    /\ UNCHANGED instanceID
    /\ Frame

\* ---------------------------------------------------- UpdateLoadBalancer

\* bug: a not-found answer is let through, as in EnsureLoadBalancer
UpdateLookupTolerant(err) == err # NoError /\ ~IsNotFound(err)

\* line 222: the lookup failed
UpdateLookupFails(err) == err # NoError

\* line 227
UpdateMustAttach(f, id) == f.InstanceId = EmptyString \/ f.InstanceId # id

\* bug: update never detaches
UpdateNeverDetach(f) == FALSE

\* line 229
UpdateMustDetach(f) == f.InstanceId # EmptyString

\* lines 226-256 up to the first request
UpdateAttachment(f, id) ==
    IF UpdateMustAttach(f, id)
    THEN IF UpdateMustDetach(f) THEN Goto("detach") ELSE Goto("attach")
    ELSE Return(Ok(<< >>, TRUE))

\* bug: a control-plane node whose provider ID does not decode is passed over
UpdateEntrySkipsInvalid(ns) ==
    /\ Enter("update", ns)
    /\ LET usable == {i \in DOMAIN ns :
                        /\ IsControlPlane(ns[i])
                        /\ InstanceIDFromProviderID(NodePool[ns[i]].ProviderID).err = NoError}
           controlPlaneNode == findControlPlaneNode(ns) IN
       IF controlPlaneNode = NoNode
       THEN /\ Return(Failed("failed finding control plane node"))
            /\ instanceID' = EmptyString
       ELSE IF usable = {}
            THEN /\ Return(Failed("failed retrieving instance id from provider id"))
                 /\ instanceID' = EmptyString
            ELSE /\ Goto("view")
                 /\ instanceID' = InstanceIDFromProviderID(
                        NodePool[ns[CHOOSE i \in usable : \A j \in usable : i <= j]].ProviderID).id

\* lines 202-215
UpdateEntry(ns) ==
    /\ Enter("update", ns)
    /\ LET controlPlaneNode == findControlPlaneNode(ns) IN
       IF controlPlaneNode = NoNode
       THEN /\ Return(Failed("failed finding control plane node"))
            /\ instanceID' = EmptyString
       ELSE LET d == InstanceIDFromProviderID(NodePool[controlPlaneNode].ProviderID) IN
            IF d.err # NoError
            THEN /\ Return(Failed("failed retrieving instance id from provider id"))
                 /\ instanceID' = EmptyString
            ELSE /\ Goto("view")
                 /\ instanceID' = d.id

UpdateBegin ==
    /\ CanBegin
    /\ \E ns \in NodeLists : UpdateEntry(ns)
    /\ UNCHANGED <<other, instances, nodeCall, metadata, pure, service, fips, faulty, envLeft, twin>>

\* lines 217-224
UpdateView ==
    /\ op = "update" /\ pc = "view"
    /\ \E o \in ViewOutcomes(Name) :
         /\ log' = Append(log, Issued("view", EmptyString, "", o))
         /\ floatingIP' = o.fip
         /\ IF UpdateLookupFails(o.err)
            THEN Return(Failed("failed viewing floating ip"))
            ELSE UpdateAttachment(o.fip, instanceID)
    /\ UNCHANGED <<fips, instanceID>>
    /\ Frame

\* lines 229-238
UpdateDetach ==
    /\ op = "update" /\ pc = "detach"
    /\ \E o \in DetachOutcomes(Name) :
         /\ log' = Append(log, Issued("detach", EmptyString, "", o))
         /\ Store(o.after)
         /\ IF o.err # NoError
            THEN Return(Failed("failed detaching floating ip"))
            ELSE Goto("attach")
    /\ UNCHANGED <<instanceID, floatingIP>>
    /\ Frame

\* lines 240-256
UpdateAttach ==
    /\ op = "update" /\ pc = "attach"
    /\ \E o \in AttachOutcomes(Name, instanceID) :
         /\ log' = Append(log, Issued("attach", instanceID, "", o))
         /\ Store(o.after)
         /\ IF o.err # NoError
            THEN Return(Failed("failed attaching floating ip"))
            ELSE Return(Ok(<< >>, TRUE))
    /\ UNCHANGED <<instanceID, floatingIP>>
    /\ Frame

\* --------------------------------------------- EnsureLoadBalancerDeleted

\* bug: the floating IP is deleted without being detached
DeleteNeverDetach(f) == FALSE

\* line 280: the floating IP is attached to an instance
DeleteMustDetach(f) == f.InstanceId # EmptyString

DeleteBegin ==
    /\ CanBegin
    /\ Enter("delete", << >>)
    /\ Goto("view")
    /\ UNCHANGED <<other, instances, nodeCall, metadata, pure, service, fips, instanceID, faulty, envLeft, twin>>

\* lines 267-280
DeleteView ==
    /\ op = "delete" /\ pc = "view"
    /\ \E o \in ViewOutcomes(Name) :
         /\ log' = Append(log, Issued("view", EmptyString, "", o))
         /\ floatingIP' = o.fip
         /\ IF o.err # NoError
            THEN IF IsNotFound(o.err)
                 THEN Return(Ok(<< >>, FALSE))
                 ELSE Return(Failed("failed viewing floating ip"))
            ELSE IF DeleteMustDetach(o.fip)
                 THEN Goto("detach")
                 ELSE Goto("delete")
    /\ UNCHANGED <<fips, instanceID>>
    /\ Frame

\* bug: the error of the detach is dropped
DeleteDetachUnchecked ==
    /\ op = "delete" /\ pc = "detach"
    /\ \E o \in DetachOutcomes(Name) :
         /\ log' = Append(log, Issued("detach", EmptyString, "", o))
         /\ Store(o.after)
         /\ Goto("delete")
    /\ UNCHANGED <<instanceID, floatingIP>>
    /\ Frame

\* lines 280-289
DeleteDetach ==
    /\ op = "delete" /\ pc = "detach"
    /\ \E o \in DetachOutcomes(Name) :
         /\ log' = Append(log, Issued("detach", EmptyString, "", o))
         /\ Store(o.after)
         /\ IF o.err # NoError
            THEN Return(Failed("failed detaching floating ip"))
            ELSE Goto("delete")
    /\ UNCHANGED <<instanceID, floatingIP>>
    /\ Frame

\* lines 291-303
DeleteDelete ==
    /\ op = "delete" /\ pc = "delete"
    /\ \E o \in DeleteOutcomes(Name) :
         /\ log' = Append(log, Issued("delete", EmptyString, "", o))
         /\ Store(o.after)
         /\ IF o.err # NoError
            THEN Return(Failed("failed deleting floating ip"))
            ELSE Return(Ok(<< >>, FALSE))
    /\ UNCHANGED <<instanceID, floatingIP>>
    /\ Frame

\* ------------------------------------------------------------ orchestrator

\* the call returns to the orchestrator's control loop, which keeps nothing of
\* it; prev notes what a later call may rely on
CallReturns ==
    /\ pc = "done"
    /\ twin.phase \in {"off", "retry"}
    /\ pc' = "idle"
    /\ prev' = IF touched \/ ret.err # NoError THEN NoPrev
               ELSE IF op = "ensure" THEN [kind |-> "ensured", nodes |-> nodes]
               ELSE IF op = "delete" THEN [kind |-> "deleted", nodes |-> << >>]
               ELSE NoPrev
    /\ op' = "none"
    /\ nodes' = << >>
    /\ instanceID' = EmptyString
    /\ floatingIP' = NilFip
    /\ log' = << >>
    /\ ret' = Pending
    /\ repeat' = "other"
    /\ touched' = FALSE
    /\ UNCHANGED <<other, instances, nodeCall, metadata, pure, service, fips, faulty, envLeft, twin>>

\* -------------------------------------------------------------- environment

EnvFrame == UNCHANGED <<other, instances, nodeCall, metadata, pure, service, op, pc, nodes, instanceID, floatingIP, log, ret, twin>>

\* a backend request starts failing
Break ==
    /\ envLeft > 0
    /\ \E r \in Requests \ faulty : faulty' = faulty \cup {r}
    /\ envLeft' = envLeft - 1
    /\ UNCHANGED <<fips, prev, repeat, touched>>
    /\ EnvFrame

\* the backend recovers
Heal ==
    /\ faulty # {}
    /\ faulty' = {}
    /\ UNCHANGED <<fips, prev, repeat, touched, envLeft>>
    /\ EnvFrame

\* someone other than this controller mutates a floating IP of the project
Foreign ==
    /\ envLeft > 0
    /\ twin.phase = "off"
    /\ \E f \in {NilFip} \cup {Fip(ip, i) : ip \in DefaultPool, i \in InstanceIds \cup {EmptyString}} :
         /\ f # fips[Name]
         /\ f.nil \/ fips[Name].nil \/ f.Ip = fips[Name].Ip
         /\ Store(f)
    /\ envLeft' = envLeft - 1
    /\ touched' = (pc # "idle")
    /\ repeat' = "other"
    /\ prev' = NoPrev
    /\ UNCHANGED faulty
    /\ EnvFrame

\* --------------------------------------------------- InstancesV2: backend

\* no instance of the project is looked at
NoInstances == << >>

\* *oxide.Instance; nil is the nil pointer / the absent instance
NilInstance == [nil |-> TRUE, Id |-> EmptyString, Name |-> EmptyString, Hostname |-> "",
                Ncpus |-> 0, Memory |-> 0, RunState |-> "",
                Nics |-> << >>, ExternalIps |-> << >>]

\* the *v1.Node of a per-node entry point: its name and Spec.ProviderID
Node(name, providerID) == [Name |-> name, ProviderID |-> providerID]

NilNode == Node(EmptyString, EmptyString)

\* no per-node entry point has been called
NoNodeCall == [node |-> NilNode, instance |-> NilInstance, nics |-> << >>]

\* *cloudprovider.InstanceMetadata; nil is the nil pointer
NilMetadata == [nil |-> TRUE, ProviderID |-> EmptyString, InstanceType |-> EmptyString,
                NodeAddresses |-> << >>]

\* the configured project, and no project in a request
Project == "proj"

NoProject == ""

InstanceRequests == {"instanceView", "nicList", "ipList"}

\* the instance a NameOrId denotes: by id when it is written as a UUID, by
\* name within the project otherwise
Denoted(nameOrId, project) ==
    IF Hyphenated(nameOrId)
    THEN {i \in DOMAIN instances : ~instances[i].nil /\ instances[i].Id = nameOrId}
    ELSE {i \in DOMAIN instances : /\ ~instances[i].nil
                                   /\ project = Project
                                   /\ instances[i].Name = nameOrId}

\* InstanceView{Project, Instance}
InstanceViewOutcomes(nameOrId, project) ==
    IF "instanceView" \in faulty THEN {[err |-> "Backend", instance |-> NilInstance]}
    ELSE IF ~Hyphenated(nameOrId) /\ project = NoProject
    THEN {[err |-> "InvalidRequest", instance |-> NilInstance]}
    ELSE IF Denoted(nameOrId, project) = {}
    THEN {[err |-> "NotFound", instance |-> NilInstance]}
    ELSE {[err |-> NoError, instance |-> instances[i]] : i \in Denoted(nameOrId, project)}

\* InstanceNetworkInterfaceList{Instance}: the Items of the listing
NicListOutcomes(nameOrId) ==
    IF "nicList" \in faulty THEN {[err |-> "Backend", items |-> << >>]}
    ELSE IF Denoted(nameOrId, NoProject) = {} THEN {[err |-> "NotFound", items |-> << >>]}
    ELSE {[err |-> NoError, items |-> instances[i].Nics] : i \in Denoted(nameOrId, NoProject)}

\* InstanceExternalIpList{Instance}: the Items of the listing
ExternalIpListOutcomes(nameOrId) ==
    IF "ipList" \in faulty THEN {[err |-> "Backend", items |-> << >>]}
    ELSE IF Denoted(nameOrId, NoProject) = {} THEN {[err |-> "NotFound", items |-> << >>]}
    ELSE {[err |-> NoError, items |-> instances[i].ExternalIps] :
            i \in Denoted(nameOrId, NoProject)}

\* one issued request, as the call's log records it
Asked(req, nameOrId, project, err) ==
    [req |-> req, instance |-> nameOrId, project |-> project, err |-> err]

\* ------------------------------------------------------------ InstancesV2

\* gibibyte is the number of bytes in a gibibyte
gibibyte == 1024 * 1024 * 1024

DecimalDigits == <<"0", "1", "2", "3", "4", "5", "6", "7", "8", "9">>

\* fmt.Sprintf("%d", n) of a number that is not negative
RECURSIVE Itoa(_)
Itoa(n) == IF n < 10 THEN <<DecimalDigits[n + 1]>>
           ELSE Itoa(n \div 10) \o <<DecimalDigits[(n % 10) + 1]>>

\* bug: a memory that is not a whole number of gibibytes is rounded up
InstanceTypeRoundedUp(instance) ==
    Itoa(instance.Ncpus) \o <<"-">>
    \o Itoa(IF instance.Memory % gibibyte = 0 THEN instance.Memory \div gibibyte
            ELSE (instance.Memory \div gibibyte) + 1)

\* fmt.Sprintf("%d-%d", instance.Ncpus, instance.Memory/gibibyte)
InstanceType(instance) ==
    Itoa(instance.Ncpus) \o <<"-">> \o Itoa(instance.Memory \div gibibyte)

NodeAddress(type, address) == [Type |-> type, Address |-> address]

\* lines 96-101: one InternalIP per network interface
InternalAddresses(nics) == [i \in 1..Len(nics) |-> NodeAddress("InternalIP", nics[i].Ip)]

\* bug: external IPs of kind snat are listed too
ExternalAddressesAll(externalIPs) ==
    [i \in 1..Len(externalIPs) |-> NodeAddress("ExternalIP", externalIPs[i].Ip)]

\* lines 103-112: one ExternalIP per external IP that is not of kind snat
RECURSIVE ExternalAddresses(_)
ExternalAddresses(externalIPs) ==
    IF externalIPs = << >> THEN << >>
    ELSE (IF Head(externalIPs).Kind = "snat" THEN << >>
          ELSE <<NodeAddress("ExternalIP", Head(externalIPs).Ip)>>)
         \o ExternalAddresses(Tail(externalIPs))

\* lines 90-112
NodeAddresses(instance, nics, externalIPs) ==
    <<NodeAddress("Hostname", instance.Hostname)>>
    \o InternalAddresses(nics) \o ExternalAddresses(externalIPs)

\* what every request step of a per-node call leaves alone
NodeFrame == UNCHANGED <<service, fips, op, nodes, floatingIP, prev, repeat, touched,
                         faulty, envLeft, twin, instances, pure, other>>

\* bookkeeping of a per-node call's entry
NodeEnter(o, n) ==
    /\ pc = "idle"
    /\ op' = o
    /\ nodeCall' = [NoNodeCall EXCEPT !.node = n]
    /\ log' = << >>
    /\ metadata' = NilMetadata
    /\ UNCHANGED <<service, fips, nodes, floatingIP, prev, repeat, touched,
                   faulty, envLeft, twin, instances, pure, other>>

\* (bool, error) of InstanceExists and InstanceShutdown
Answer(b) == [err |-> NoError, ingress |-> << >>, exists |-> b]

\* lines 38-41 and 145-148: the instance id is read off the provider ID
DecodeOrFail(n) ==
    LET d == InstanceIDFromProviderID(n.ProviderID) IN
    IF d.err # NoError
    THEN /\ Return(Failed("failed retrieving instance id from provider id"))
         /\ instanceID' = EmptyString
    ELSE /\ Goto("view")
         /\ instanceID' = d.id

\* names of nodes, and of the instances behind them
NameOne == <<"n", "1">>

NameTwo == <<"n", "2">>

\* the nodes a per-node entry point is called with
NodeArgs ==
    { Node(NameOne, EmptyString), Node(NameTwo, EmptyString),
      Node(NameOne, NewProviderID(InstanceOne)),
      Node(NameOne, NewProviderID(InstanceLower)),
      Node(NameOne, AwsPrefix \o InstanceOne),
      Node(NameOne, OxidePrefix) }

\* lines 34-41
ExistsBegin ==
    /\ \E n \in NodeArgs : NodeEnter("exists", n) /\ DecodeOrFail(n)

\* bug: a not-found answer is returned as a failure
ExistsViewStrict ==
    /\ op = "exists" /\ pc = "view"
    /\ \E o \in InstanceViewOutcomes(instanceID, NoProject) :
         /\ log' = Append(log, Asked("instanceView", instanceID, NoProject, o.err))
         /\ IF o.err # NoError
            THEN Return(Failed("failed viewing oxide instance"))
            ELSE Return(Answer(TRUE))
    /\ UNCHANGED <<instanceID, nodeCall, metadata>>
    /\ NodeFrame

\* lines 43-53
ExistsView ==
    /\ op = "exists" /\ pc = "view"
    /\ \E o \in InstanceViewOutcomes(instanceID, NoProject) :
         /\ log' = Append(log, Asked("instanceView", instanceID, NoProject, o.err))
         /\ IF o.err # NoError
            THEN IF IsNotFound(o.err)
                 THEN Return(Answer(FALSE))
                 ELSE Return(Failed("failed viewing oxide instance"))
            ELSE Return(Answer(TRUE))
    /\ UNCHANGED <<instanceID, nodeCall, metadata>>
    /\ NodeFrame

\* lines 141-148
ShutdownBegin ==
    /\ \E n \in NodeArgs : NodeEnter("shutdown", n) /\ DecodeOrFail(n)

\* lines 150-157
ShutdownView ==
    /\ op = "shutdown" /\ pc = "view"
    /\ \E o \in InstanceViewOutcomes(instanceID, NoProject) :
         /\ log' = Append(log, Asked("instanceView", instanceID, NoProject, o.err))
         /\ nodeCall' = [nodeCall EXCEPT !.instance = o.instance]
         /\ IF o.err # NoError
            THEN Return(Failed("failed viewing oxide instance"))
            ELSE Return(Answer(o.instance.RunState = "stopped"))
    /\ UNCHANGED <<instanceID, metadata>>
    /\ NodeFrame

\* lines 58-66 and 123-126: getInstanceID with a provider ID; the codec's
\* error is returned as it is
MetadataBegin ==
    /\ \E n \in NodeArgs :
         /\ NodeEnter("metadata", n)
         /\ IF n.ProviderID # EmptyString
            THEN LET d == InstanceIDFromProviderID(n.ProviderID) IN
                 IF d.err # NoError
                 THEN Return(Failed(d.err)) /\ instanceID' = EmptyString
                 ELSE Goto("view") /\ instanceID' = d.id
            ELSE Goto("byname") /\ instanceID' = EmptyString

\* lines 128-137: getInstanceID without a provider ID
MetadataByName ==
    /\ op = "metadata" /\ pc = "byname"
    /\ \E o \in InstanceViewOutcomes(nodeCall.node.Name, Project) :
         /\ log' = Append(log, Asked("instanceView", nodeCall.node.Name, Project, o.err))
         /\ IF o.err # NoError
            THEN /\ Return(Failed("failed viewing oxide instance by name"))
                 /\ instanceID' = EmptyString
            ELSE /\ Goto("view")
                 /\ instanceID' = o.instance.Id
    /\ UNCHANGED <<nodeCall, metadata>>
    /\ NodeFrame

\* lines 68-74
MetadataView ==
    /\ op = "metadata" /\ pc = "view"
    /\ \E o \in InstanceViewOutcomes(instanceID, NoProject) :
         /\ log' = Append(log, Asked("instanceView", instanceID, NoProject, o.err))
         /\ nodeCall' = [nodeCall EXCEPT !.instance = o.instance]
         /\ IF o.err # NoError
            THEN Return(Failed("failed viewing oxide instance"))
            ELSE Goto("nics")
    /\ UNCHANGED <<instanceID, metadata>>
    /\ NodeFrame

\* lines 76-81
MetadataNics ==
    /\ op = "metadata" /\ pc = "nics"
    /\ \E o \in NicListOutcomes(instanceID) :
         /\ log' = Append(log, Asked("nicList", instanceID, NoProject, o.err))
         /\ nodeCall' = [nodeCall EXCEPT !.nics = o.items]
         /\ IF o.err # NoError
            THEN Return(Failed("failed listing instance network interfaces"))
            ELSE Goto("ips")
    /\ UNCHANGED <<instanceID, metadata>>
    /\ NodeFrame

\* bug: the provider ID of the node is returned, not that of the instance
MetadataIpsOwnID ==
    /\ op = "metadata" /\ pc = "ips"
    /\ \E o \in ExternalIpListOutcomes(instanceID) :
         /\ log' = Append(log, Asked("ipList", instanceID, NoProject, o.err))
         /\ IF o.err # NoError
            THEN /\ Return(Failed("failed listing instance external ips"))
                 /\ metadata' = NilMetadata
            ELSE /\ Return(Answer(TRUE))
                 /\ metadata' =
                      [nil |-> FALSE,
                       ProviderID |-> nodeCall.node.ProviderID,
                       InstanceType |-> InstanceType(nodeCall.instance),
                       NodeAddresses |->
                           NodeAddresses(nodeCall.instance, nodeCall.nics, o.items)]
    /\ UNCHANGED <<instanceID, nodeCall>>
    /\ NodeFrame

\* lines 83-118
MetadataIps ==
    /\ op = "metadata" /\ pc = "ips"
    /\ \E o \in ExternalIpListOutcomes(instanceID) :
         /\ log' = Append(log, Asked("ipList", instanceID, NoProject, o.err))
         /\ IF o.err # NoError
            THEN /\ Return(Failed("failed listing instance external ips"))
                 /\ metadata' = NilMetadata
            ELSE /\ Return(Answer(TRUE))
                 /\ metadata' =
                      [nil |-> FALSE,
                       ProviderID |-> NewProviderID(instanceID),
                       InstanceType |-> InstanceType(nodeCall.instance),
                       NodeAddresses |->
                           NodeAddresses(nodeCall.instance, nodeCall.nics, o.items)]
    /\ UNCHANGED <<instanceID, nodeCall>>
    /\ NodeFrame

\* the instance is deleted while a call is looking at it
Terminate ==
    /\ envLeft > 0
    /\ pc \notin {"idle", "done"}
    /\ \E i \in DOMAIN instances :
         /\ ~instances[i].nil
         /\ instances' = [instances EXCEPT ![i] = NilInstance]
    /\ envLeft' = envLeft - 1
    /\ UNCHANGED <<service, fips, op, pc, nodes, instanceID, floatingIP, log, ret,
                   prev, repeat, touched, faulty, twin, nodeCall, metadata, pure, other>>

\* ------------------------------------------------------------ specification

NoPure == [fn |-> "none", arg |-> << >>, out |-> << >>]

\* the per-node entry points and the functions under evaluation are at rest
LoadBalancerOnly ==
    /\ instances = NoInstances
    /\ nodeCall = NoNodeCall
    /\ metadata = NilMetadata
    /\ pure = NoPure
    /\ other = NoOther

Init ==
    /\ LoadBalancerOnly
    /\ service = TheService
    /\ fips = [n \in FipNames |-> NilFip]
    /\ op = "none"
    /\ pc = "idle"
    /\ nodes = << >>
    /\ instanceID = EmptyString
    /\ floatingIP = NilFip
    /\ log = << >>
    /\ ret = Pending
    /\ prev = NoPrev
    /\ repeat = "other"
    /\ touched = FALSE
    /\ faulty = {}
    /\ envLeft = MaxEnv
    /\ twin = NoTwin

Next ==
    \/ GetBegin \/ GetView
    \/ EnsureBegin \/ EnsureView \/ EnsureCreate \/ EnsureDetach \/ EnsureAttach
    \/ UpdateBegin \/ UpdateView \/ UpdateDetach \/ UpdateAttach
    \/ DeleteBegin \/ DeleteView \/ DeleteDetach \/ DeleteDelete
    \/ CallReturns
    \/ Break \/ Heal \/ Foreign

Spec == Init /\ [][Next]_vars

\* the states a floating IP of the project can be in
FipStates == {NilFip} \cup {Fip(ip, i) : ip \in DefaultPool, i \in InstanceIds \cup {EmptyString}}

\* ------------------------------------------- a caller that retries ensure

\* the node lists a retrying caller passes: each node alone, and a selected
\* node behind one that is skipped
RetryNodeLists ==
    {<<k>> : k \in ReconcileKeys} \cup {<<"worker", "master">>, <<"worker", "n1">>}

RetryInit ==
    /\ LoadBalancerOnly
    /\ service = TheService
    /\ \E f \in FipStates : fips = [n \in FipNames |-> IF n = Name THEN f ELSE NilFip]
    /\ op = "none"
    /\ pc = "idle"
    /\ nodes = << >>
    /\ instanceID = EmptyString
    /\ floatingIP = NilFip
    /\ log = << >>
    /\ ret = Pending
    /\ prev = NoPrev
    /\ repeat = "other"
    /\ touched = FALSE
    /\ faulty = {}
    /\ envLeft = MaxEnv
    /\ \E ns \in RetryNodeLists : twin = [NoTwin EXCEPT !.phase = "retry", !.want = ns]

\* the orchestrator requeues the Service: ensure again, with the same nodes
RetryBegin ==
    /\ pc = "idle"
    /\ twin.phase = "retry"
    /\ EnsureEntry(twin.want)
    /\ twin' = [twin EXCEPT !.tries = IF @ < 2 THEN @ + 1 ELSE 2]
    /\ UNCHANGED <<other, instances, nodeCall, metadata, pure, service, fips, faulty, envLeft>>

\* the one thread of the caller and its ensure calls: pc enables one step at a time
RetryThread ==
    \/ RetryBegin \/ EnsureView \/ EnsureCreate \/ EnsureDetach \/ EnsureAttach
    \/ CallReturns

RetryNext == RetryThread \/ Break \/ Heal

\* every request returns and the caller requeues; the backend recovers
RetryFairness == WF_vars(RetryThread) /\ WF_vars(Heal)

SpecRetry == RetryInit /\ [][RetryNext]_vars /\ RetryFairness

\* ------------------------- ensure and update from the same backend state

TwinInit ==
    /\ LoadBalancerOnly
    /\ service = TheService
    /\ \E f \in FipStates \ {NilFip} :
         \E ns \in NodeLists :
            /\ fips = [n \in FipNames |-> IF n = Name THEN f ELSE NilFip]
            /\ twin = [NoTwin EXCEPT !.phase = "ensure", !.want = ns, !.snap = f]
    /\ op = "none"
    /\ pc = "idle"
    /\ nodes = << >>
    /\ instanceID = EmptyString
    /\ floatingIP = NilFip
    /\ log = << >>
    /\ ret = Pending
    /\ prev = NoPrev
    /\ repeat = "other"
    /\ touched = FALSE
    /\ faulty \in {fs \in SUBSET Requests : Cardinality(fs) <= MaxEnv}
    /\ envLeft = 0

TwinEnsure ==
    /\ pc = "idle"
    /\ twin.phase = "ensure"
    /\ EnsureEntry(twin.want)
    /\ UNCHANGED <<other, instances, nodeCall, metadata, pure, service, fips, faulty, envLeft, twin>>

\* the ensure has returned: keep its outcome, put the backend back, run update
TwinUpdate ==
    /\ pc = "done"
    /\ twin.phase = "ensure"
    /\ twin' = [twin EXCEPT !.phase = "update", !.log = log, !.ret = ret,
                            !.final = fips[Name], !.id = instanceID]
    /\ Store(twin.snap)
    /\ UpdateEntry(twin.want)
    /\ UNCHANGED <<other, instances, nodeCall, metadata, pure, service, faulty, envLeft>>

TwinNext ==
    \/ TwinEnsure \/ EnsureView \/ EnsureDetach \/ EnsureAttach
    \/ TwinUpdate \/ UpdateView \/ UpdateDetach \/ UpdateAttach

SpecTwin == TwinInit /\ [][TwinNext]_vars

TypeOK ==
    /\ pc \in {"idle", "view", "create", "detach", "attach", "delete", "done",
              "byname", "nics", "ips"}
    /\ op \in {"none", "get", "ensure", "update", "delete",
              "exists", "shutdown", "metadata"}
    /\ repeat \in {"other", "ensured", "deleted"}
    /\ faulty \subseteq Requests \cup InstanceRequests
    /\ other.on \in BOOLEAN /\ other.calls \in 0..MaxPairCalls

\* ------------------------------------------- the selector, taken alone

\* the load balancer's entry points are not in use
lbvars == <<service, fips, op, pc, nodes, instanceID, floatingIP, log, ret,
            prev, repeat, touched, faulty, envLeft, twin, other>>

LoadBalancerAtRest ==
    /\ service = TheService
    /\ fips = [n \in FipNames |-> NilFip]
    /\ op = "none"
    /\ pc = "idle"
    /\ nodes = << >>
    /\ instanceID = EmptyString
    /\ floatingIP = NilFip
    /\ log = << >>
    /\ ret = Pending
    /\ prev = NoPrev
    /\ repeat = "other"
    /\ touched = FALSE
    /\ twin = NoTwin
    /\ other = NoOther

\* the node lists findControlPlaneNode may be given: any nodes, in any order
SelectLists == UNION {[1..n -> NodeKeys] : n \in 0..MaxSelect}

SelectInit ==
    /\ LoadBalancerAtRest
    /\ faulty = {}
    /\ envLeft = 0
    /\ instances = NoInstances
    /\ nodeCall = NoNodeCall
    /\ metadata = NilMetadata
    /\ \E ns \in SelectLists : pure = [fn |-> "select", arg |-> ns, out |-> << >>]

\* findControlPlaneNode(ctx, nodes), called once and once again
SelectApply ==
    /\ pure.fn = "select"
    /\ Len(pure.out) < 2
    /\ pure' = [pure EXCEPT !.out = Append(@, findControlPlaneNode(pure.arg))]
    /\ UNCHANGED <<lbvars, instances, nodeCall, metadata>>

SpecSelect == SelectInit /\ [][SelectApply]_vars

\* ------------------------------------------------ the codec, taken alone

CodecDigits == {"1", "a", "A"}

\* a UUID whose first group, middle groups and last group repeat one digit
UUIDGroups(a, b, c) == Rep(a, 8) \o <<"-">> \o Rep(b, 4) \o <<"-">> \o Rep(b, 4)
                       \o <<"-">> \o Rep(b, 4) \o <<"-">> \o Rep(c, 12)

TestUUIDLower == <<"1", "2", "3", "4", "5", "6", "7", "8", "-", "1", "2",
    "3", "4", "-", "1", "2", "3", "4", "-", "1", "2", "3", "4", "-", "1",
    "2", "3", "4", "5", "6", "7", "8", "9", "a", "b", "c">>

TestUUIDUpper == <<"1", "2", "3", "4", "5", "6", "7", "8", "-", "1", "2",
    "3", "4", "-", "1", "2", "3", "4", "-", "1", "2", "3", "4", "-", "1",
    "2", "3", "4", "5", "6", "7", "8", "9", "A", "B", "C">>

NotAUUID == <<"n", "o", "t", "-", "a", "-", "v", "a", "l", "i", "d", "-",
    "u", "u", "i", "d">>

PartialUUID == <<"1", "2", "3", "4", "5", "6", "7", "8", "-", "1", "2",
    "3", "4">>

\* well-formed UUID strings
WellFormed ==
    {UUIDGroups(a, b, c) : a \in CodecDigits, b \in CodecDigits, c \in CodecDigits}
    \cup {TestUUIDLower, TestUUIDUpper}

\* other strings uuid.Parse is given: the forms it accepts by length, and
\* strings it rejects
OtherBodies ==
    { EmptyString, NotAUUID, PartialUUID,
      Rep("a", 32), Rep("A", 32), Rep("g", 32), Rep("a", 36),
      UrnPrefix \o TestUUIDLower,
      <<"U", "R", "N", ":", "U", "U", "I", "D", ":">> \o TestUUIDUpper,
      <<"u", "r", "l", ":", "u", "u", "i", "d", ":">> \o TestUUIDLower,
      <<"{">> \o TestUUIDLower \o <<"}">>,
      <<"x">> \o TestUUIDLower \o <<"y">>,
      TestUUIDLower \o <<"0">>,
      [TestUUIDLower EXCEPT ![1] = "g"],
      [TestUUIDLower EXCEPT ![9] = "0"] }

CodecPrefixes ==
    { EmptyString, OxidePrefix, AwsPrefix,
      <<"o", "x", "i", "d", "e", ":", "/">>,
      <<"O", "X", "I", "D", "E", ":", "/", "/">>,
      <<" ">> \o OxidePrefix }

\* the strings the codec is given
CodecInputs == {p \o b : p \in CodecPrefixes, b \in WellFormed \cup OtherBodies}

CodecInit ==
    /\ LoadBalancerAtRest
    /\ faulty = {}
    /\ envLeft = 0
    /\ instances = NoInstances
    /\ nodeCall = NoNodeCall
    /\ metadata = NilMetadata
    /\ \E x \in CodecInputs : pure = [fn |-> "codec", arg |-> x, out |-> << >>]

\* one application: the function, its argument, its result and its error
Applied(f, x, res, err) == [f |-> f, of |-> x, res |-> res, err |-> err]

\* the string the next function is applied to: the input, or the result of
\* the application before
Current == IF pure.out = << >> THEN pure.arg ELSE pure.out[Len(pure.out)].res

\* InstanceIDFromProviderID(Current)
CodecDecode ==
    /\ pure.fn = "codec"
    /\ Len(pure.out) < MaxApply
    /\ pure.out # << >> => pure.out[Len(pure.out)].f = "encode"
    /\ LET d == InstanceIDFromProviderID(Current) IN
       pure' = [pure EXCEPT !.out = Append(@, Applied("decode", Current, d.id, d.err))]
    /\ UNCHANGED <<lbvars, instances, nodeCall, metadata>>

\* NewProviderID(Current); after a decode, only of an instance id it returned
CodecEncode ==
    /\ pure.fn = "codec"
    /\ Len(pure.out) < MaxApply
    /\ pure.out # << >> =>
         pure.out[Len(pure.out)].f = "decode" /\ pure.out[Len(pure.out)].err = NoError
    /\ pure' = [pure EXCEPT !.out =
                   Append(@, Applied("encode", Current, NewProviderID(Current), NoError))]
    /\ UNCHANGED <<lbvars, instances, nodeCall, metadata>>

CodecNext == CodecDecode \/ CodecEncode

SpecCodec == CodecInit /\ [][CodecNext]_vars

\* ------------------------------------------------- the per-node entry points

\* the network interfaces of an instance, as the listing orders them
NicLists ==
    UNION { { [i \in 1..n |-> [Ip |-> "10.0.0." \o ToString(i)]],
              [i \in 1..n |-> [Ip |-> "10.0.0." \o ToString(n + 1 - i)]] } :
            n \in 0..MaxNics }

ExternalIpKinds == {"snat", "ephemeral", "floating"}

\* the external IPs of an instance, as the listing orders them
ExternalIpLists ==
    UNION { { [i \in 1..n |-> [Kind |-> ks[i], Ip |-> "203.0.113." \o ToString(i)]] :
              ks \in [1..n -> ExternalIpKinds] } :
            n \in 0..MaxExternalIps }

\* the instance behind node n1: running or stopped
Shapes ==
    { [Ncpus |-> 2,  Memory |-> gibibyte - 1,              RunState |-> "running"],
      [Ncpus |-> 4,  Memory |-> gibibyte,                  RunState |-> "running"],
      [Ncpus |-> 16, Memory |-> gibibyte + (gibibyte - 1), RunState |-> "stopped"] }

InstanceStates ==
    {NilInstance} \cup
    { [nil |-> FALSE, Id |-> InstanceOne, Name |-> NameOne, Hostname |-> "n1.cluster",
       Ncpus |-> sh.Ncpus, Memory |-> sh.Memory, RunState |-> sh.RunState,
       Nics |-> ns, ExternalIps |-> xs] :
      sh \in Shapes, ns \in NicLists, xs \in ExternalIpLists }

NodeInit ==
    /\ LoadBalancerAtRest
    /\ \E r \in InstanceStates : instances = [i \in {InstanceOne} |-> r]
    /\ faulty \in {{}} \cup {{r} : r \in InstanceRequests}
    /\ envLeft = MaxEnv
    /\ nodeCall = NoNodeCall
    /\ metadata = NilMetadata
    /\ pure = NoPure

NodeNext ==
    \/ ExistsBegin \/ ExistsView
    \/ ShutdownBegin \/ ShutdownView
    \/ MetadataBegin \/ MetadataByName \/ MetadataView \/ MetadataNics \/ MetadataIps
    \/ Terminate

SpecNode == NodeInit /\ [][NodeNext]_vars

\* -------------------------------------------- the names of the Services

\* namespaces and names of Services: DNS labels, with and without hyphens
NameSpaces == {<<"a">>, <<"a", "-", "b">>, <<"n", "s">>}

ServiceNames == {<<"c">>, <<"b", "-", "c">>, <<"w", "e", "b">>}

NamedServices == {[Namespace |-> n, Name |-> m] : n \in NameSpaces, m \in ServiceNames}

NameInit ==
    /\ LoadBalancerAtRest
    /\ faulty = {}
    /\ envLeft = 0
    /\ instances = NoInstances
    /\ nodeCall = NoNodeCall
    /\ metadata = NilMetadata
    /\ \E s1 \in NamedServices : \E s2 \in NamedServices :
         pure = [fn |-> "name", arg |-> <<s1, s2>>, out |-> << >>]

\* GetLoadBalancerName(ctx, clusterName, service), for one Service and then
\* for the other
NameApply ==
    /\ pure.fn = "name"
    /\ Len(pure.out) < 2
    /\ pure' = [pure EXCEPT !.out = Append(@, GetLoadBalancerName(pure.arg[Len(pure.out) + 1]))]
    /\ UNCHANGED <<lbvars, instances, nodeCall, metadata>>

SpecName == NameInit /\ [][NameApply]_vars

\* ------------------------------------------- calls of two Services at once

\* two Services whose names are unrelated, and two that share hyphens
PairServices ==
    { TheService,
      [Namespace |-> <<"a", "-", "b">>, Name |-> <<"c">>],
      [Namespace |-> <<"a">>, Name |-> <<"b", "-", "c">>] }

PairNames == {GetLoadBalancerName(svc) : svc \in PairServices}

PairNodeLists == {<<"n1">>, <<"master">>}

PairInit ==
    /\ instances = NoInstances
    /\ nodeCall = NoNodeCall
    /\ metadata = NilMetadata
    /\ pure = NoPure
    /\ twin = NoTwin
    /\ faulty = {}
    /\ envLeft = 0
    /\ fips = [n \in PairNames |-> NilFip]
    /\ op = "none"
    /\ pc = "idle"
    /\ nodes = << >>
    /\ instanceID = EmptyString
    /\ floatingIP = NilFip
    /\ log = << >>
    /\ ret = Pending
    /\ prev = NoPrev
    /\ repeat = "other"
    /\ touched = FALSE
    /\ \E s1 \in PairServices : \E s2 \in PairServices \ {s1} :
         /\ service = s1
         /\ other = [NoOther EXCEPT !.on = TRUE, !.service = s2]

\* the control loop starts a call for the Service of the running worker
PairFrame ==
    /\ other.on /\ pc = "idle" /\ other.calls < MaxPairCalls
    /\ other' = [other EXCEPT !.calls = @ + 1]
    /\ UNCHANGED <<instances, nodeCall, metadata, pure, service, fips, faulty, envLeft, twin>>

PairEnsure == PairFrame /\ \E ns \in PairNodeLists : EnsureEntry(ns)

PairUpdate == PairFrame /\ \E ns \in PairNodeLists : UpdateEntry(ns)

PairDelete == PairFrame /\ Enter("delete", << >>) /\ Goto("view") /\ UNCHANGED instanceID

\* the other worker runs: the running call waits where it is, with the
\* floating IP of its Service as it is now, and the waiting call goes on;
\* a call that has issued a request and finds the floating IP of its Service
\* changed has been interfered with
Switch ==
    /\ other.on
    /\ service' = other.service
    /\ op' = other.op
    /\ pc' = other.pc
    /\ nodes' = other.nodes
    /\ instanceID' = other.instanceID
    /\ floatingIP' = other.floatingIP
    /\ log' = other.log
    /\ ret' = other.ret
    /\ prev' = other.prev
    /\ repeat' = other.repeat
    /\ touched' = \/ other.touched
                  \/ /\ other.pc \notin {"idle", "done"}
                     /\ Len(other.log) > 0
                     /\ fips[GetLoadBalancerName(other.service)] # other.seen
    /\ other' = [on |-> TRUE, service |-> service, op |-> op, pc |-> pc,
                 nodes |-> nodes, instanceID |-> instanceID,
                 floatingIP |-> floatingIP, log |-> log, ret |-> ret,
                 prev |-> prev, repeat |-> repeat, touched |-> touched,
                 seen |-> fips[Name], calls |-> other.calls]
    /\ UNCHANGED <<instances, nodeCall, metadata, pure, fips, faulty, envLeft, twin>>

PairNext ==
    \/ PairEnsure \/ EnsureView \/ EnsureCreate \/ EnsureDetach \/ EnsureAttach
    \/ PairUpdate \/ UpdateView \/ UpdateDetach \/ UpdateAttach
    \/ PairDelete \/ DeleteView \/ DeleteDetach \/ DeleteDelete
    \/ CallReturns
    \/ Switch

SpecPair == PairInit /\ [][PairNext]_vars

\* ------------------------------------------------------------------ claims

\* the requests of a log, in order
Reqs(l) == [i \in DOMAIN l |-> l[i].req]

\* the call issued one of these requests
IssuedAny(rs) == \E i \in DOMAIN log : log[i].req \in rs

\* the lookup of the current call answered with an existing floating IP
LookupFound == Len(log) >= 1 /\ log[1].req = "view" /\ log[1].err = NoError

\* the lookup of the current call answered not-found
LookupAbsent == Len(log) >= 1 /\ log[1].req = "view" /\ log[1].err = "NotFound"

\* the instance id written in the provider ID of the first node carrying a
\* control-plane or master label, read off the node list directly
SelectedInstance(ns) ==
    LET cps == {i \in DOMAIN ns :
                   \/ ControlPlaneLabel \in NodePool[ns[i]].Labels.keys
                   \/ MasterLabel \in NodePool[ns[i]].Labels.keys}
        first == CHOOSE i \in cps : \A j \in cps : i <= j
        pid == NodePool[ns[first]].ProviderID
    IN SubSeq(pid, 9, Len(pid))

\* C1: an ensure that repeats a successful ensure for the same Service with
\* the same nodes, with nobody else mutating the backend since the first one
\* began, issues no create, no detach and no attach.
C1_EnsureSteadyStateNoop ==
    (op = "ensure" /\ repeat = "ensured") => ~IssuedAny({"create", "detach", "attach"})

C1_Witness ==
    /\ op = "ensure" /\ repeat = "ensured" /\ Succeeded
    /\ Reqs(log) = <<"view">>
    /\ fips[Name].InstanceId = instanceID

\* the lookup of the current ensure found the floating IP attached to an
\* instance other than the selected one
AttachedElsewhere ==
    /\ LookupFound
    /\ log[1].got.InstanceId # EmptyString
    /\ log[1].got.InstanceId # instanceID

\* C2: an ensure that finds the floating IP attached to another instance
\* issues one detach and then one attach to the selected instance; the attach
\* is issued only once the detach has succeeded, and not at all if it failed.
C2_DetachBeforeAttach ==
    (op = "ensure" /\ AttachedElsewhere) =>
        /\ pc \in {"detach", "attach", "done"}
        /\ pc = "detach" => Reqs(log) = <<"view">>
        /\ pc = "attach" => Reqs(log) = <<"view", "detach">> /\ log[2].err = NoError
        /\ pc = "done" =>
             \/ Reqs(log) = <<"view", "detach">> /\ log[2].err # NoError /\ ret.err # NoError
             \/ /\ Reqs(log) = <<"view", "detach", "attach">>
                /\ log[2].err = NoError
                /\ log[3].parent = instanceID
                /\ (ret.err = NoError) = (log[3].err = NoError)

C2_Witness ==
    /\ op = "ensure" /\ AttachedElsewhere /\ Succeeded
    /\ Reqs(log) = <<"view", "detach", "attach">>
    /\ fips[Name].InstanceId = instanceID

\* C3: when the lookup of an ensure answered not-found and the create that
\* follows fails because the floating IP exists by now, the ensure does not
\* return that failure as its error.
C3_CreateRaceTolerated ==
    ( /\ op = "ensure" /\ LookupAbsent
      /\ Len(log) >= 2 /\ log[2].req = "create" /\ log[2].err = "ObjectAlreadyExists" )
    => ~(Returned /\ ret.err = "failed creating floating ip")

\* C4: a successful ensure that nobody disturbed leaves the floating IP
\* lb-ns-web attached to the instance of the first control-plane node and
\* returns its address as the only ingress; from an absent floating IP the
\* requests are view, create in the pool "default", attach to that instance.
C4_EnsureEstablishes ==
    (op = "ensure" /\ Succeeded /\ ~touched) =>
        /\ Name = <<"l", "b", "-", "n", "s", "-", "w", "e", "b">>
        /\ ~fips[Name].nil
        /\ fips[Name].InstanceId = SelectedInstance(nodes)
        /\ ret.ingress = <<fips[Name].Ip>>
        /\ LookupAbsent =>
             /\ Reqs(log) = <<"view", "create", "attach">>
             /\ log[2].pool = "default"
             /\ log[3].parent = SelectedInstance(nodes)

C4_Witness ==
    /\ op = "ensure" /\ Succeeded /\ ~touched /\ LookupAbsent
    /\ nodes = <<"n1">>
    /\ fips[Name].InstanceId = UUIDOf("1")
    /\ ret.ingress = <<fips[Name].Ip>>

\* C6: a delete whose lookup answers not-found returns success at once: the
\* view is its only request and the step leaves the backend as it was.
C6_DeleteAbsentNoop ==
    /\ []((op = "delete" /\ LookupAbsent) => (Succeeded /\ Reqs(log) = <<"view">>))
    /\ [][(op = "delete" /\ pc = "view" /\ pc' # "view" /\ log'[1].err = "NotFound")
            => (fips' = fips /\ pc' = "done" /\ ret'.err = NoError)]_vars

C6_Witness ==
    /\ op = "delete" /\ LookupAbsent /\ Succeeded
    /\ fips[Name].nil

\* the requests a delete makes after a lookup that found the floating IP
DeletePlan == IF log[1].got.InstanceId # EmptyString THEN <<"detach", "delete">>
              ELSE <<"delete">>

IsPrefix(a, b) == Len(a) <= Len(b) /\ SubSeq(b, 1, Len(a)) = a

\* C7: a delete that finds the floating IP attached issues one detach and
\* then one delete, and only the delete if it is unattached; after a
\* successful delete the floating IP is gone: a get that follows answers
\* not-exists and a delete that follows issues no mutation.
C7_DetachThenDelete ==
    /\ (op = "delete" /\ LookupFound) =>
          /\ IsPrefix(Reqs(Tail(log)), DeletePlan)
          /\ Succeeded => Reqs(Tail(log)) = DeletePlan
          /\ (Succeeded /\ ~touched) => fips[Name].nil
    /\ (op = "get" /\ repeat = "deleted" /\ Returned) =>
          /\ ~ret.exists
          /\ ret.err = NoError \/ log[1].err = "Backend"
    /\ (op = "delete" /\ repeat = "deleted") => ~IssuedAny({"detach", "delete", "create", "attach"})

C7_Witness ==
    /\ op = "delete" /\ LookupFound /\ Succeeded
    /\ Reqs(log) = <<"view", "detach", "delete">>
    /\ fips[Name].nil

C7_WitnessFollowing ==
    /\ op = "get" /\ repeat = "deleted" /\ Returned /\ ret.err = NoError /\ ~ret.exists

\* a request of the current call failed, other than a lookup answering not-found
RequestFailed(i) == log[i].err # NoError /\ ~(i = 1 /\ log[i].err = "NotFound")

\* C8: in delete every failed lookup (other than not-found), detach or delete
\* ends the call with an error; success means the lookup found nothing or
\* the delete request succeeded; after a failed detach no delete is issued
\* and the floating IP still exists.
C8_DeleteSurfacesErrors ==
    op = "delete" =>
        /\ (\E i \in DOMAIN log : RequestFailed(i)) => (Returned /\ ret.err # NoError)
        /\ Succeeded =>
             \/ LookupAbsent /\ Len(log) = 1
             \/ log[Len(log)].req = "delete" /\ log[Len(log)].err = NoError
        /\ (\E i \in DOMAIN log : log[i].req = "detach" /\ log[i].err # NoError) =>
             /\ ~IssuedAny({"delete"})
             /\ ~touched => ~fips[Name].nil

C8_Witness ==
    /\ op = "delete" /\ Returned /\ ret.err = "failed detaching floating ip"
    /\ Reqs(log) = <<"view", "detach">>
    /\ ~fips[Name].nil /\ fips[Name].InstanceId # EmptyString

\* C9: an update whose lookup answers not-found returns an error; the view is
\* its only request and the floating IP is not created.
C9_UpdateNeedsExisting ==
    /\ []((op = "update" /\ LookupAbsent) =>
            /\ Returned /\ ret.err # NoError
            /\ Reqs(log) = <<"view">>
            /\ ~touched => fips[Name].nil)
    /\ [][(op = "update" /\ pc = "view" /\ pc' # "view" /\ log'[1].err = "NotFound")
            => fips' = fips]_vars

C9_Witness ==
    /\ op = "update" /\ LookupAbsent /\ Returned
    /\ ret.err = "failed viewing floating ip"
    /\ fips[Name].nil

\* the node list selects a node whose provider ID is oxide://<uuid>
Selectable(ns) ==
    /\ \E i \in DOMAIN ns : \/ ControlPlaneLabel \in NodePool[ns[i]].Labels.keys
                            \/ MasterLabel \in NodePool[ns[i]].Labels.keys
    /\ UUIDParses(SelectedInstance(ns))

\* a retried ensure has succeeded with the floating IP attached as wanted
Converged ==
    /\ op = "ensure" /\ Succeeded
    /\ ~fips[Name].nil
    /\ fips[Name].InstanceId = SelectedInstance(twin.want)

\* C5: from any state of the floating IP (absent, unattached, attached to
\* any instance), a caller that calls ensure again with the same nodes after
\* every return, against a backend that stops failing, eventually gets a
\* successful ensure with the floating IP attached to the selected instance.
C5_RetryConverges == Selectable(twin.want) => <>Converged

C5_Witness ==
    /\ twin.phase = "retry" /\ twin.tries = 2 /\ envLeft = 0
    /\ Converged
    /\ Reqs(log) = <<"view", "detach", "attach">>

\* C10: from a state in which the floating IP exists, update selects the same
\* instance as ensure, issues the same requests with the same answers, leaves
\* the floating IP in the same state, and fails exactly when ensure fails.
C10_UpdateMatchesEnsure ==
    (twin.phase = "update" /\ Returned) =>
        /\ instanceID = twin.id
        /\ log = twin.log
        /\ fips[Name] = twin.final
        /\ (ret.err = NoError) = (twin.ret.err = NoError)

C10_Witness ==
    /\ twin.phase = "update" /\ Succeeded
    /\ Reqs(log) = <<"view", "detach", "attach">>
    /\ log = twin.log
    /\ fips[Name].InstanceId = instanceID

\* C11: get issues one view of the floating IP named after the Service and no
\* mutation: a not-found answer gives (nil status, exists=false, no error),
\* any other failed lookup gives an error with exists=false, and a found
\* floating IP gives exists=true with its address as the only ingress IP; the
\* step leaves the backend as it was.
C11_GetReadOnly ==
    /\ [](op = "get" =>
            /\ ~IssuedAny({"create", "detach", "attach", "delete"})
            /\ Returned =>
                 /\ Reqs(log) = <<"view">>
                 /\ log[1].err = "NotFound" =>
                      ret.err = NoError /\ ~ret.exists /\ ret.ingress = << >>
                 /\ log[1].err \notin {NoError, "NotFound"} =>
                      ret.err # NoError /\ ~ret.exists /\ ret.ingress = << >>
                 /\ log[1].err = NoError =>
                      /\ ret.err = NoError /\ ret.exists
                      /\ ret.ingress = <<log[1].got.Ip>>
                      /\ ~touched =>
                           log[1].got = fips[<<"l", "b", "-", "n", "s", "-", "w", "e", "b">>])
    /\ [][(op = "get" /\ pc = "view" /\ pc' = "done") => fips' = fips]_vars

C11_Witness ==
    /\ op = "get" /\ Succeeded /\ ret.exists
    /\ ret.ingress = <<fips[Name].Ip>>
    /\ fips[Name].InstanceId # EmptyString

\* the node carries one of the two role labels
HasRoleLabel(k) ==
    \/ "node-role.kubernetes.io/control-plane" \in NodePool[k].Labels.keys
    \/ "node-role.kubernetes.io/master" \in NodePool[k].Labels.keys

\* the first node of the list, in list order, that carries a role label
FirstWithRole(ns) ==
    LET q == {i \in DOMAIN ns : HasRoleLabel(ns[i])} IN
    IF q = {} THEN NoNode ELSE ns[CHOOSE i \in q : \A j \in q : i <= j]

\* C12: select returns the first node, in list order, that carries the
\* control-plane or the master label, skipping nodes without labels; it
\* answers not-found for the empty list and for a list without such a node;
\* called again with the same list it returns the same node.
C12_SelectFirstMatch ==
    pure.fn = "select" =>
        /\ \A j \in DOMAIN pure.out : pure.out[j] = FirstWithRole(pure.arg)
        /\ (Len(pure.out) > 0 /\ pure.arg = << >>) => pure.out[1] = NoNode
        /\ (Len(pure.out) > 0 /\ pure.arg = <<"bare">>) => pure.out[1] = NoNode
        /\ Len(pure.out) = 2 => pure.out[1] = pure.out[2]

C12_Witness ==
    /\ pure.fn = "select"
    /\ pure.arg = <<"worker", "master">>
    /\ pure.out = <<"master", "master">>

\* no node of the list carries a role label
NoEligible(ns) == \A i \in DOMAIN ns : ~HasRoleLabel(ns[i])

\* C13: an ensure or update whose node list has no node with a control-plane
\* or master label returns the no-control-plane-node error at once: it issues
\* no backend request and its step leaves every floating IP as it was.
C13_NoEligibleNoCalls ==
    /\ []((op \in {"ensure", "update"} /\ NoEligible(nodes)) =>
            /\ Returned
            /\ ret.err = "failed finding control plane node"
            /\ log = << >>)
    /\ [][(pc = "idle" /\ op' \in {"ensure", "update"} /\ NoEligible(nodes'))
            => (fips' = fips /\ pc' = "done")]_vars

C13_Witness ==
    /\ op = "ensure" /\ nodes = <<"worker">> /\ Returned
    /\ ret.err = "failed finding control plane node"
    /\ log = << >>
    /\ fips[Name].InstanceId = InstanceLower

\* C14: the codec round-trips.  Encoding a well-formed UUID and decoding the
\* result succeeds and gives back the UUID; decoding a provider ID that is
\* accepted and encoding the result gives back the provider ID, character for
\* character.
C14_CodecRoundTrip ==
    pure.fn = "codec" =>
        \A i \in 1..(Len(pure.out) - 1) :
            LET a == pure.out[i]
                b == pure.out[i + 1] IN
            /\ (a.f = "encode" /\ a.of \in WellFormed) =>
                   (b.f = "decode" /\ b.err = NoError /\ b.res = a.of)
            /\ (a.f = "decode" /\ a.err = NoError) =>
                   (b.f = "encode" /\ b.res = a.of)

C14_Witness ==
    /\ pure.fn = "codec"
    /\ pure.arg = <<"o", "x", "i", "d", "e", ":", "/", "/">> \o TestUUIDUpper
    /\ Len(pure.out) = 2
    /\ pure.out[1].f = "decode" /\ pure.out[1].res = TestUUIDUpper
    /\ pure.out[2].f = "encode" /\ pure.out[2].res = pure.arg

\* the string begins with oxide://
StartsWithOxide(x) ==
    /\ Len(x) >= 8
    /\ SubSeq(x, 1, 8) = <<"o", "x", "i", "d", "e", ":", "/", "/">>

\* C15: decode rejects the empty string as empty, every other string that
\* does not begin with oxide:// for its scheme, and a string that begins with
\* oxide:// but whose remainder does not parse as a UUID for its format; a
\* rejected input returns no instance id.
C15_DecodeRejects ==
    pure.fn = "codec" =>
        \A i \in DOMAIN pure.out :
            LET r == pure.out[i] IN
            r.f = "decode" =>
                /\ r.of = << >> => r.err = "provider id is empty"
                /\ (r.of # << >> /\ ~StartsWithOxide(r.of)) =>
                       r.err = "provider id does not have 'oxide://' prefix"
                /\ (StartsWithOxide(r.of) /\ ~UUIDParses(SubSeq(r.of, 9, Len(r.of)))) =>
                       r.err = "provider id contains invalid uuid"
                /\ r.of \in {OxidePrefix, OxidePrefix \o NotAUUID, OxidePrefix \o PartialUUID} =>
                       r.err = "provider id contains invalid uuid"
                /\ r.of \in {TestUUIDLower, AwsPrefix \o TestUUIDLower} =>
                       r.err = "provider id does not have 'oxide://' prefix"
                /\ r.err # NoError => r.res = << >>

C15_Witness ==
    /\ pure.fn = "codec"
    /\ pure.arg = OxidePrefix \o PartialUUID
    /\ Len(pure.out) = 1
    /\ pure.out[1].f = "decode"
    /\ pure.out[1].err = "provider id contains invalid uuid"
    /\ pure.out[1].res = << >>

\* C16: encode applies to every string and cannot fail: the result is
\* oxide:// followed by the argument unchanged; the empty instance id gives
\* oxide://, which decode then rejects.
C16_EncodeTotal ==
    pure.fn = "codec" =>
        /\ pure.out = << >> => ENABLED CodecEncode
        /\ \A i \in DOMAIN pure.out :
              LET r == pure.out[i] IN
              r.f = "encode" =>
                  /\ r.err = NoError
                  /\ r.res = <<"o", "x", "i", "d", "e", ":", "/", "/">> \o r.of
                  /\ (r.of = << >> /\ i < Len(pure.out)) =>
                         pure.out[i + 1].err = "provider id contains invalid uuid"

C16_Witness ==
    /\ pure.fn = "codec"
    /\ pure.arg = << >>
    /\ Len(pure.out) = 2
    /\ pure.out[1].f = "encode"
    /\ pure.out[1].res = <<"o", "x", "i", "d", "e", ":", "/", "/">>
    /\ pure.out[2].f = "decode" /\ pure.out[2].err # NoError

\* the string is oxide:// followed by a string that parses as a UUID
ValidProviderID(x) == StartsWithOxide(x) /\ UUIDParses(SubSeq(x, 9, Len(x)))

PerNode == {"exists", "shutdown", "metadata"}

\* C17: instanceExists on a node with a valid provider ID issues one view of
\* the instance: not-found gives false without error, found gives true
\* without error, any other failure gives an error; false without error is
\* returned for not-found only.
C17_ExistsTellsAbsent ==
    (op = "exists" /\ Returned /\ ValidProviderID(nodeCall.node.ProviderID)) =>
        /\ Reqs(log) = <<"instanceView">>
        /\ log[1].err = "NotFound" => (ret.err = NoError /\ ~ret.exists)
        /\ log[1].err = NoError => (ret.err = NoError /\ ret.exists)
        /\ log[1].err \notin {NoError, "NotFound"} => ret.err # NoError
        /\ (ret.err = NoError /\ ~ret.exists) => log[1].err = "NotFound"

C17_Witness ==
    /\ op = "exists" /\ Returned
    /\ nodeCall.node.ProviderID = <<"o", "x", "i", "d", "e", ":", "/", "/">> \o UUIDOf("1")
    /\ Len(log) = 1
    /\ log[1].err = "NotFound"
    /\ ret.err = NoError /\ ~ret.exists

\* C18: in every per-node entry point a view of the instance that the backend
\* answers with not-found does not end the call with an error, as a backend
\* failure does.
C18_NotFoundIsAbsent ==
    ( /\ op \in PerNode /\ Returned
      /\ \E i \in DOMAIN log : log[i].req = "instanceView" /\ log[i].err = "NotFound" )
    => ret.err = NoError

\* C19: every per-node entry point called with a provider ID that is not
\* empty decodes it, returning the codec's error without a backend request or
\* viewing the instance by the decoded id; called with an empty provider ID
\* it views the instance by the node's name in the configured project.
C19_ResolveByIdOrName ==
    (op \in PerNode /\ Returned) =>
        LET pid == nodeCall.node.ProviderID IN
        /\ (pid # << >> /\ ~ValidProviderID(pid)) => (ret.err # NoError /\ log = << >>)
        /\ ValidProviderID(pid) =>
             /\ Len(log) >= 1
             /\ log[1].req = "instanceView"
             /\ log[1].instance = SubSeq(pid, 9, Len(pid))
        /\ pid = << >> =>
             /\ Len(log) >= 1
             /\ log[1].req = "instanceView"
             /\ log[1].instance = nodeCall.node.Name
             /\ log[1].project = Project

\* the positions of a listing of external IPs whose kind is not snat
NotSnat(xs) == {i \in DOMAIN xs : xs[i].Kind # "snat"}

\* C20: the addresses instanceMetadata returns for an instance are one
\* Hostname, then one InternalIP per network interface in listing order, then
\* one ExternalIP per external IP not of kind snat in listing order; no snat
\* address appears.
C20_AddressOrder ==
    (op = "metadata" /\ Succeeded /\ ~instances[InstanceOne].nil) =>
        LET inst == instances[InstanceOne]
            a == metadata.NodeAddresses
            n == Len(inst.Nics)
            K == NotSnat(inst.ExternalIps) IN
        /\ ~metadata.nil
        /\ Len(a) = 1 + n + Cardinality(K)
        /\ a[1] = [Type |-> "Hostname", Address |-> inst.Hostname]
        /\ \A i \in 1..n : a[1 + i] = [Type |-> "InternalIP", Address |-> inst.Nics[i].Ip]
        /\ \A i \in K :
             a[1 + n + Cardinality({k \in K : k <= i})] =
                 [Type |-> "ExternalIP", Address |-> inst.ExternalIps[i].Ip]
        /\ \A i \in DOMAIN inst.ExternalIps :
             inst.ExternalIps[i].Kind = "snat" =>
                 \A j \in DOMAIN a : a[j].Address # inst.ExternalIps[i].Ip

C20_Witness ==
    /\ op = "metadata" /\ Succeeded /\ ~instances[InstanceOne].nil
    /\ Len(instances[InstanceOne].Nics) = 2
    /\ instances[InstanceOne].Nics[1].Ip = "10.0.0.2"
    /\ Len(instances[InstanceOne].ExternalIps) = 2
    /\ instances[InstanceOne].ExternalIps[1].Kind = "snat"
    /\ instances[InstanceOne].ExternalIps[2].Kind = "floating"
    /\ Len(metadata.NodeAddresses) = 4
    /\ metadata.NodeAddresses[4] = [Type |-> "ExternalIP", Address |-> "203.0.113.2"]

\* C21: the instance type instanceMetadata returns is the decimal CPU count,
\* a hyphen, and the decimal number of whole gibibytes of memory: 0 below one
\* gibibyte, and one less than the next whole number for a memory just under
\* it.
C21_InstanceTypeTruncates ==
    (op = "metadata" /\ Succeeded /\ ~instances[InstanceOne].nil) =>
        LET inst == instances[InstanceOne]
            cpus == IF inst.Ncpus = 2 THEN <<"2">>
                    ELSE IF inst.Ncpus = 4 THEN <<"4">>
                    ELSE <<"1", "6">>
            gib == IF inst.Memory < 1073741824 THEN <<"0">>
                   ELSE IF inst.Memory - 1073741824 < 1073741824 THEN <<"1">>
                   ELSE <<"2">> IN
        /\ inst.Ncpus \in {2, 4, 16}
        /\ metadata.InstanceType = cpus \o <<"-">> \o gib

C21_Witness ==
    /\ op = "metadata" /\ Succeeded /\ ~instances[InstanceOne].nil
    /\ instances[InstanceOne].Memory = 2147483647
    /\ metadata.InstanceType = <<"1", "6", "-", "1">>

\* C22: the provider ID instanceMetadata returns is oxide:// followed by the
\* id of the resolved instance: the node's own provider ID when that is a
\* valid one, and the id of the instance found by name when the node has
\* none; the listings are asked for that id.
C22_MetadataProviderID ==
    (op = "metadata" /\ Succeeded) =>
        LET pid == nodeCall.node.ProviderID
            n == Len(log) IN
        /\ metadata.ProviderID = <<"o", "x", "i", "d", "e", ":", "/", "/">> \o instanceID
        /\ Reqs(SubSeq(log, n - 2, n)) = <<"instanceView", "nicList", "ipList">>
        /\ \A i \in (n - 2)..n : log[i].instance = instanceID
        /\ pid # << >> => (n = 3 /\ metadata.ProviderID = pid)
        /\ pid = << >> =>
             /\ n = 4
             /\ log[1].instance = nodeCall.node.Name /\ log[1].project = Project
             /\ instanceID = InstanceOne
             /\ nodeCall.instance.Id = InstanceOne

C22_Witness ==
    /\ op = "metadata" /\ Succeeded
    /\ nodeCall.node = Node(NameOne, << >>)
    /\ metadata.ProviderID = <<"o", "x", "i", "d", "e", ":", "/", "/">> \o UUIDOf("1")
    /\ Len(log) = 4

\* the request kinds of the load balancer that change the backend
Mutations == {"create", "detach", "attach", "delete"}

\* the i-th request of the call failed, other than a lookup answered not-found
\* in an operation that tolerates it
FailedRequest(i) ==
    /\ log[i].err # NoError
    /\ ~(op \in {"get", "ensure", "delete"} /\ log[i].req = "view" /\ log[i].err = "NotFound")

\* C24: within one call every backend request kind is issued at most once,
\* and the first request that fails (other than a tolerated not-found lookup)
\* is the call's last request: the call returns an error right after it.
C24_NoRetry ==
    op \in {"get", "ensure", "update", "delete"} =>
        /\ \A i, j \in DOMAIN log : log[i].req = log[j].req => i = j
        /\ \A i \in DOMAIN log :
             FailedRequest(i) =>
                 /\ i = Len(log)
                 /\ Returned
                 /\ ret.err \notin {NoError, "pending"}
                 /\ ret.ingress = << >>

C24_Witness ==
    /\ op = "ensure" /\ Returned
    /\ Reqs(log) = <<"view", "detach", "attach">>
    /\ log[Len(log)].err = "Backend"
    /\ ret.err = "failed attaching floating ip"

\* C26: an ensure or update that fails after one of its mutations succeeded
\* (create or detach succeeded, then attach failed) issues no compensating
\* request: the failed attach is its last request, no delete is issued, the
\* call returns an error, and unless someone else interferes the floating IP
\* is left existing and unattached.
C26_NoCleanup ==
    (/\ op \in {"ensure", "update"} /\ Returned /\ ret.err # NoError
     /\ \E i \in DOMAIN log : log[i].req \in Mutations /\ log[i].err = NoError) =>
        LET n == Len(log) IN
        /\ log[n].req = "attach" /\ log[n].err # NoError
        /\ log[n - 1].req \in {"create", "detach"} /\ log[n - 1].err = NoError
        /\ \A i \in DOMAIN log : log[i].req # "delete"
        /\ \A i \in 1..(n - 1) : log[i].req # "attach"
        /\ ret.ingress = << >>
        /\ ~touched => (~fips[Name].nil /\ fips[Name].InstanceId = EmptyString)

C26_Witness ==
    /\ op = "ensure" /\ Returned /\ ret.err # NoError /\ ~touched
    /\ Reqs(log) = <<"view", "create", "attach">>
    /\ log[2].err = NoError
    /\ ~fips[Name].nil /\ fips[Name].InstanceId = EmptyString

\* the floating IP exists and is attached to no instance
Unattached(f) == ~f.nil /\ f.InstanceId = EmptyString

\* one step of the life of a floating IP: create, attach, detach, delete
Lifecycle(a, b) ==
    \/ a.nil /\ Unattached(b)
    \/ Unattached(a) /\ ~b.nil /\ b.Ip = a.Ip /\ b.InstanceId # EmptyString
    \/ ~a.nil /\ a.InstanceId # EmptyString /\ Unattached(b) /\ b.Ip = a.Ip
    \/ Unattached(a) /\ b.nil

\* C27: in a call during which nothing else changes the floating IP, an
\* attach is issued only while the floating IP exists unattached, a delete is
\* issued only while it exists unattached, and every change the call makes is
\* one step of absent -> unattached -> attached -> unattached -> attached or
\* deleted.
C27_AttachDetachDiscipline ==
    /\ []((pc = "attach" /\ ~touched) => Unattached(fips[Name]))
    /\ []((pc = "delete" /\ ~touched) => Unattached(fips[Name]))
    /\ [][(fips' # fips /\ envLeft' = envLeft /\ ~touched)
            => Lifecycle(fips[Name], fips'[Name])]_vars

C27_Witness ==
    /\ op = "ensure" /\ Succeeded /\ ~touched
    /\ Reqs(log) = <<"view", "detach", "attach">>
    /\ log[1].got.InstanceId # instanceID
    /\ fips[Name].InstanceId = instanceID

\* C29: when the instance id decoded from the node's provider ID and the
\* instance id the backend reports for the floating IP differ only in letter
\* case, ensure and update take the floating IP as attached to the right
\* instance and issue neither a detach nor an attach.
C29_CaseInsensitiveAttached ==
    (/\ op \in {"ensure", "update"} /\ LookupFound
     /\ log[1].got.InstanceId # instanceID
     /\ EqualFold(log[1].got.InstanceId, instanceID)) =>
        \A i \in DOMAIN log : log[i].req \notin {"detach", "attach"}

\* the first node of the list with a role label has a provider ID that is
\* empty or does not decode
FirstIneligible(ns) ==
    /\ FirstWithRole(ns) # NoNode
    /\ ~ValidProviderID(NodePool[FirstWithRole(ns)].ProviderID)

\* C30: when the first control-plane node of the list has an empty or
\* malformed provider ID, ensure and update return the provider-ID error at
\* once, issue no backend request and leave every floating IP as it was, also
\* when a later control-plane node of the list has a valid provider ID.
C30_NoFallThrough ==
    /\ []((op \in {"ensure", "update"} /\ FirstIneligible(nodes)) =>
            /\ Returned
            /\ ret.err = "failed retrieving instance id from provider id"
            /\ ret.ingress = << >>
            /\ log = << >>)
    /\ [][(pc = "idle" /\ op' \in {"ensure", "update"} /\ FirstIneligible(nodes'))
            => (fips' = fips /\ pc' = "done")]_vars

C30_Witness ==
    /\ op = "update" /\ Returned
    /\ nodes = <<"foreign", "n1">>
    /\ ret.err = "failed retrieving instance id from provider id"
    /\ ~fips[Name].nil

C30_WitnessEmpty ==
    /\ op = "ensure" /\ Returned
    /\ nodes = <<"unset", "master">>
    /\ ret.err = "failed retrieving instance id from provider id"

\* the i-th request of the call gave the call a fresh floatingIP: the lookup,
\* or a create, whose answer is the floating IP as created
Observes(i) == log[i].req \in {"view", "create"}

\* C25: in ensure no mutation is decided on a state of the floating IP that
\* was observed before an earlier mutation of the same call: between any
\* mutation of the call and a later one, the call has read the floating IP
\* again (or holds the answer of the earlier mutation itself).
C25_RereadsBeforeMutating ==
    op = "ensure" =>
        \A i \in DOMAIN log : \A k \in DOMAIN log :
            (k < i /\ log[k].req \in Mutations /\ log[i].req \in Mutations) =>
                \E j \in k..(i - 1) : Observes(j)

\* C28: two Services with different (namespace, name) pairs, where either may
\* contain hyphens, never derive the same floating-IP name.
C28_NamesDistinguishServices ==
    (pure.fn = "name" /\ Len(pure.out) = 2 /\ pure.arg[1] # pure.arg[2]) =>
        pure.out[1] # pure.out[2]

\* the call that waits has issued a request and has not returned
WaitingMidCall == other.pc \notin {"idle", "done"} /\ Len(other.log) > 0

\* neither call has had the floating IP of its Service changed under it
Isolated ==
    /\ ~touched
    /\ ~other.touched
    /\ WaitingMidCall => fips[GetLoadBalancerName(other.service)] = other.seen

\* every step leaves alone the floating IPs of names other than the one
\* derived from the running call's Service
OwnNameOnly == \A n \in DOMAIN fips : n # Name => fips'[n] = fips[n]

\* C23: a call changes only the floating IP whose name is derived from its
\* Service, and calls in progress at once for two different Services never
\* change each other's floating IP: each call sees the floating IP of its
\* Service exactly as its own requests left it, as if it ran alone, whatever
\* the interleaving.
C23_DifferentServicesIsolated ==
    /\ [][OwnNameOnly]_vars
    /\ []((other.on /\ service # other.service) => Isolated)

\* the same for two Services that do not derive the same name
IsolatedWhenNamesDiffer ==
    (other.on /\ Name # GetLoadBalancerName(other.service)) => Isolated

\* two calls for Services of different names have both changed the backend
PairBothActed ==
    /\ other.on /\ Name # GetLoadBalancerName(other.service)
    /\ ~fips[Name].nil /\ ~fips[GetLoadBalancerName(other.service)].nil
    /\ WaitingMidCall /\ Len(log) > 1

====
